---- MODULE Spec2Model ----
(***************************************************************************)
(* Model of the playRebus backend generation pipeline: the Scheduler       *)
(* (Start / Stop / run / checkAndRunIfNeeded / generatePuzzlesForToday /   *)
(* TriggerManualGeneration / TriggerTodayGeneration), the generator's      *)
(* batch loop (RealAIGenerator.GenerateRebusPuzzles), the prompt cache     *)
(* (PromptGenerator.GetPromptsFromClaude), the image store                 *)
(* (Store.SaveImage) and the puzzles table (DB.SavePuzzles,                *)
(* DB.HasPuzzlesForDate).                                                  *)
(*                                                                         *)
(* Time is a tick counter: a calendar day has DayLen ticks, the date of a  *)
(* moment is its day number and the configured (hour, minute) is a tick    *)
(* of the day.  Every database query, external request and file write is   *)
(* one atomic step of the execution that issues it; executions interleave  *)
(* between such steps.                                                     *)
(*                                                                         *)
(* Spec is the scheduler with its concurrent executions, the prompts being *)
(* opaque.  PromptSpec is one GenerateRebusPuzzles caller after another    *)
(* with the content of the replies, prompts and records.  ExtractSpec      *)
(* applies extractImageURL to every output value up to MaxOut elements.    *)
(* RenderSpec is the render loop of one production after another on one   *)
(* ImageGenerator, request by request.  VersionSpec is createPrediction    *)
(* called by overlapping productions.  SaveSpec is DB.SavePuzzles          *)
(* statement by statement with two writers and the GET handler.  DashSpec  *)
(* is the dashboard's solved / current-puzzle state.  FaultSpec is Spec on *)
(* a database whose existence query may begin to fail, ShutdownSpec is     *)
(* Spec with main's signal handler, RestartSpec is Spec with one more      *)
(* Start than main issues, and TextSpec applies the text handling of       *)
(* GetPromptsFromClaude to every reply text up to MaxText characters.      *)
(***************************************************************************)
EXTENDS Integers, Sequences, FiniteSets, TLC

\* ---------------------------------------------------------------- bounds
DayLen == 2
MaxNow == 1
MaxStarts == 1
MaxCalls == 2
MaxActive == 2
MaxLen == 6
MaxOut == 3
MaxProds == 2
MaxRenders == 3
MaxTx == 2
MaxPending == 2
MaxText == 4

\* ------------------------------------------------------ program constants
NumPuzzles == 5
maxAttempts == 60
EmptyDate == -1

MaxDay == MaxNow \div DayLen
Days == 0..MaxDay
Positions == 0..(NumPuzzles - 1)
Loops == {<<"run", k>> : k \in 1..(MaxStarts + 1)}
Handlers == {<<"http", 1>>, <<"http", 2>>}
Ctl == <<"main", 0>>
Procs == {Ctl} \cup Loops \cup Handlers
NoTag == <<"none", 0>>
OldTag == <<"old", 0>>
BadDate == MaxDay + 1
DateInputs == Days \cup {BadDate}

VARIABLES
    now,        \* time.Now(), in ticks
    hourMinute, \* Scheduler.hour / Scheduler.minute as a tick of the day
    queryFails, \* the database answers the existence query with an error
    startLimit, \* how many times the environment starts the scheduler
    running,    \* Scheduler.running
    stopClosed, \* stopChan has been closed
    panicked,   \* the process died with "close of closed channel"
    started,    \* number of `go s.run()` goroutines spawned so far
    table,      \* rows of the puzzles table
    images,     \* image store: <<date, index>> -> tag of the stored bytes
    promptCache,\* PromptGenerator.promptCache: date -> tag of the prompt set
    pc,         \* position of every execution
    op,         \* operation an execution is running
    cdate,      \* `today` / `date` of the calling operation
    date,       \* `today` / `date` used by the pipeline
    prompts,    \* tag of the prompt set held by the pipeline
    built,      \* puzzles slice of GenerateRebusPuzzles (NoPuzzle = nil)
    ret,        \* value returned by the last finished operation
    nextRun,    \* nextRun of each run() goroutine
    calls,      \* trigger requests received so far
    pre,        \* what held when the current operation began
    acts,       \* side effects issued by the current operation
    failed,     \* stage that was made to fail in the current operation
    saveCount,  \* committed SavePuzzles transactions per date
    \* the prompt stage with the content of the prompts
    pgCache,    \* pg.promptCache: date -> the cached []RebusPrompt
    gpc,        \* position of the GenerateRebusPuzzles call
    gdate,      \* its date
    gout,       \* what its GetPromptsFromClaude call returned
    gprev,      \* what the previous call for each date returned
    puzzles,    \* the persisted records, with answer and hint, per date
    responseText, \* claudeResponse.Content[0].Text of a reply
    textOut,    \* how GetPromptsFromClaude ended on that text
    \* the output field of a succeeded prediction
    outputRaw,  \* the argument of extractImageURL
    epc,        \* position of the extractImageURL call
    eout,       \* what extractImageURL returned
    \* one ImageGenerator and the render loop of GenerateRebusPuzzles
    modelVersion, \* ig.modelVersion ("" = not resolved yet)
    rpc,        \* position of the production in the render loop
    rpos,       \* loop index i
    attempt,    \* attempt of pollPrediction
    polls,      \* status requests issued for the current job
    status,     \* prediction.Status of the last poll response
    predErr,    \* prediction.Error of the last poll response
    url,        \* what pollPrediction extracted from the output
    rerr,       \* error that ended the production
    submitted,  \* positions whose job was created in this production
    stored,     \* positions whose image was handed to SaveImage
    dls,        \* downloads issued for the current job
    prods,      \* productions begun so far
    \* overlapping createPrediction calls on the one ImageGenerator
    vpc,        \* position of each caller in createPrediction
    vlocal,     \* the version a caller holds
    vused,      \* the version of a caller's last submission
    vresolved,  \* some metadata query has returned a version
    vcalls,     \* createPrediction calls begun so far
    \* DB.SavePuzzles statement by statement, and the GET handler
    committed,  \* committed rows of the puzzles table
    tpc,        \* position of each SavePuzzles call
    tdate,      \* its date
    tsrc,       \* the production whose records it writes
    tdel,       \* rows its DELETE has marked
    tins,       \* rows it has inserted and not yet committed
    seen,       \* the last response of GetPuzzlesHandler
    txCount,    \* SavePuzzles calls begun so far
    \* the dashboard (App.jsx)
    solvedPuzzles,      \* React state solvedPuzzles
    currentPuzzleIndex, \* React state currentPuzzleIndex
    storage,    \* localStorage["rebus_solved_<today>"]
    pending     \* verify requests in flight, each with its closure

ptext == <<responseText, textOut>>
pgen == <<pgCache, gpc, gdate, gout, gprev, puzzles, ptext>>
extr == <<outputRaw, epc, eout>>
rloop == <<rpc, rpos, attempt, polls, status, predErr, url, rerr, submitted,
           stored, dls, prods>>
rend == <<modelVersion, rloop>>
vers == <<vpc, vlocal, vused, vresolved, vcalls>>
txn == <<committed, tpc, tdate, tsrc, tdel, tins, seen, txCount>>
dash == <<solvedPuzzles, currentPuzzleIndex, storage, pending>>
rest == <<rend, vers, txn, dash>>
side == <<pgen, extr, rest>>

conf == <<hourMinute, queryFails, startLimit>>

core == <<now, conf, running, stopClosed, panicked, started, table,
          images, promptCache, pc, op, cdate, date, prompts, built,
          ret, nextRun, calls, pre, acts, failed, saveCount>>

vars == <<core, side>>

sched == <<running, stopClosed, panicked, started>>
stores == <<table, images, promptCache, saveCount>>
pipe == <<date, prompts, built>>

\* ----------------------------------------------------------------- time
\* store.GetTodayDate: the calendar date of the current moment
GetTodayDate == now \div DayLen

\* time.Date(now.Year(), now.Month(), now.Day(), s.hour, s.minute, ...)
ScheduledTime == GetTodayDate * DayLen + hourMinute

\* checkAndRunIfNeeded: now.After(scheduledTime)
NowAfterScheduledAlways(t) == TRUE
NowAfterScheduled(t) == now > t

\* run: nextRun, moved to tomorrow if nextRun.Before(now).  woke: the loop
\* comes back from generatePuzzlesForToday, so the timer of an occurrence
\* has fired and the calls made since have taken time: the clock reads
\* later than that occurrence, also within the tick of the occurrence.
NextRunTimeToday(woke) == ScheduledTime
NextRunTime(woke) ==
    IF ScheduledTime < now \/ (woke /\ ScheduledTime = now)
    THEN ScheduledTime + DayLen
    ELSE ScheduledTime

\* store.ValidateDate: nil iff the string is a YYYY-MM-DD calendar date
ValidateDateAny(d) == TRUE
ValidateDate(d) == d \in Days

\* ------------------------------------------------------- puzzles table
NoPuzzle == [id |-> <<>>, date |-> EmptyDate, index |-> -1, src |-> NoTag,
             img |-> <<>>, nil |-> TRUE]
\* the zero models.Puzzle{} left in the slice for a nil pointer
ZeroPuzzle == [id |-> <<>>, date |-> EmptyDate, index |-> 0, src |-> NoTag,
               img |-> <<>>, nil |-> FALSE]

\* fmt.Sprintf("%s-%d", date, i)
PuzzleIDShifted(d, i) == <<d, i + 1>>
PuzzleID(d, i) == <<d, i>>

\* Store.GetImageURL / GetImagePath: locator of the image of (date, index)
GetImageURLFirst(d, i) == <<d, 0>>
GetImageURL(d, i) == <<d, i>>

\* the models.Puzzle built at position i from prompt set tag
NewPuzzle(d, i, tag) == [id |-> PuzzleID(d, i), date |-> d, index |-> i,
                         src |-> tag, img |-> GetImageURL(d, i),
                         nil |-> FALSE]

RowsOf(d) == {r \in table : r.date = d}

\* DB.HasPuzzlesForDate: COUNT(*) > 0, or the error of the query;
\* Store.HasPuzzlesForDate: `if err != nil { return false }`
HasPuzzlesForDateNever(d) == FALSE
HasPuzzlesForDate(d) == IF queryFails THEN FALSE
                        ELSE Cardinality(RowsOf(d)) > 0

\* scheduler: "Convert pointers to values"
ToValues(ps) == [i \in DOMAIN ps |-> IF ps[i].nil THEN ZeroPuzzle ELSE ps[i]]

SeqRange(s) == {s[i] : i \in DOMAIN s}

\* rows left after DELETE FROM puzzles WHERE date = $1
AfterDelete(d) == table \ RowsOf(d)

\* the INSERTs respect PRIMARY KEY (id) and UNIQUE (date, index_num)
InsertsOK(d, ps) ==
    /\ \A i, j \in DOMAIN ps :
          i # j => /\ ps[i].id # ps[j].id
                   /\ <<ps[i].date, ps[i].index>> # <<ps[j].date, ps[j].index>>
    /\ \A i \in DOMAIN ps : \A r \in AfterDelete(d) :
          /\ r.id # ps[i].id
          /\ <<r.date, r.index>> # <<ps[i].date, ps[i].index>>

\* DB.SavePuzzles: table after a committed transaction
SavePuzzlesKeeping(d, ps) == table \cup SeqRange(ps)
SavePuzzles(d, ps) == AfterDelete(d) \cup SeqRange(ps)

\* the batch of day 0 that an earlier run of the server may have left
OldBatch == {[id |-> <<0, i>>, date |-> 0, index |-> i, src |-> OldTag,
             img |-> <<0, i>>, nil |-> FALSE] : i \in Positions}

\* ------------------------------------------------------------ initially
NilErr == <<>>
NoRet == [generated |-> FALSE, err |-> NilErr]
NoPre == [exists |-> FALSE, passed |-> FALSE]
EmptyBuilt == [i \in 1..NumPuzzles |-> NoPuzzle]
NoFail == [stage |-> "none", pos |-> 0]

\* NewScheduler / NewPromptGenerator / NewStore on a database that holds
\* either nothing or the batch an earlier run of the server left for day 0
SchedInitWith(limit) ==
    /\ now = 0
    /\ hourMinute \in 0..(DayLen - 1)
    /\ queryFails = FALSE
    /\ startLimit = limit
    /\ running = FALSE
    /\ stopClosed = FALSE
    /\ panicked = FALSE
    /\ started = 0
    /\ table \in {{}, OldBatch}
    /\ images = [k \in Days \X Positions |->
                    IF k[1] = 0 /\ table # {} THEN OldTag ELSE NoTag]
    /\ promptCache = [d \in Days |-> NoTag]
    /\ pc = [p \in Procs |-> IF p \in Loops THEN "none" ELSE "idle"]
    /\ op = [p \in Procs |-> "none"]
    /\ cdate = [p \in Procs |-> 0]
    /\ date = [p \in Procs |-> 0]
    /\ prompts = [p \in Procs |-> NoTag]
    /\ built = [p \in Procs |-> EmptyBuilt]
    /\ ret = [p \in Procs |-> NoRet]
    /\ nextRun = [p \in Loops |-> 0]
    /\ calls = 0
    /\ pre = [p \in Procs |-> NoPre]
    /\ acts = [p \in Procs |-> {}]
    /\ failed = [p \in Procs |-> NoFail]
    /\ saveCount = [d \in Days |-> 0]

\* main calls sched.Start() once
SchedInit == SchedInitWith(MaxStarts)

\* the scheduler before Start, on an empty database
SchedIdle == SchedInit /\ hourMinute = 0 /\ table = {}

\* ============================================ the prompts, with content
\* A string is a sequence of characters.
UpperCase == {"A", "B"}
ToLowerChar(c) == IF c = "A" THEN "a" ELSE IF c = "B" THEN "b" ELSE c

\* strings.ToLower
ToLower(s) == [i \in DOMAIN s |-> ToLowerChar(s[i])]

\* strings.TrimSpace
RECURSIVE TrimSpace(_)
TrimSpace(s) ==
    IF s = <<>> THEN s
    ELSE IF Head(s) = " " THEN TrimSpace(Tail(s))
    ELSE IF s[Len(s)] = " " THEN TrimSpace(SubSeq(s, 1, Len(s) - 1))
    ELSE s

\* the Answer of a record: strings.ToLower(strings.TrimSpace(prompt.Answer))
NormalizeAnswerNoFold(a) == TrimSpace(a)
NormalizeAnswer(a) == ToLower(TrimSpace(a))

DigitOf(i) == <<"0", "1", "2", "3", "4", "5", "6", "7", "8", "9">>[i + 1]

\* answers as the prompt service may write them, around the digit of the
\* position
AnswerTexts == {[pre |-> <<"a">>, post |-> <<>>],
                [pre |-> <<" ", "A", " ">>, post |-> <<"B", " ">>]}
FieldNames == {"prompt", "answer", "hint"}

\* The replies of the prompt service: a failed exchange (transport error,
\* status other than 200, no content, no JSON array, array that does not
\* parse), or a JSON array of n objects in which the object at position n
\* may lack one key.
FailedReply == [ok |-> FALSE, n |-> 0, miss |-> "none",
                ans |-> [pre |-> <<>>, post |-> <<>>]]
Replies ==
    {FailedReply} \cup
    {r \in [ok : {TRUE}, n : 0..MaxLen, miss : FieldNames \cup {"none"},
            ans : AnswerTexts] : r.n = 0 => r.miss = "none"}

\* the object at position i (from 1) of the array of reply r
JsonObject(r, i) ==
    LET has(f) == ~(r.miss = f /\ i = r.n)
    IN  [prompt |-> [has |-> has("prompt"), v |-> <<"p", DigitOf(i)>>],
         answer |-> [has |-> has("answer"), v |-> r.ans.pre \o <<DigitOf(i)>> \o r.ans.post],
         hint |-> [has |-> has("hint"), v |-> <<"h", DigitOf(i)>>]]

\* json.Unmarshal of one object into a RebusPrompt: a key that is absent
\* leaves the field at its zero value, the empty string, without error
UnmarshalPrompt(o) ==
    [prompt |-> IF o.prompt.has THEN o.prompt.v ELSE <<>>,
     answer |-> IF o.answer.has THEN o.answer.v ELSE <<>>,
     hint |-> IF o.hint.has THEN o.hint.v ELSE <<>>]

\* json.Unmarshal([]byte(jsonText), &prompts)
ParsePrompts(r) == [i \in 1..r.n |-> UnmarshalPrompt(JsonObject(r, i))]

\* `if len(prompts) != 5` is not taken
CountOKAtLeast(n) == n >= NumPuzzles
CountOK(n) == n = NumPuzzles

\* `prompts, exists := pg.promptCache[date]` for a date without entry
EmptyEntry == [exists |-> TRUE, v |-> <<>>]
NotCached == [exists |-> FALSE, v |-> <<>>]

\* `pg.promptCache[date] = prompts`
CacheWriteSkipped(c, d, ps) == c
CacheWrite(c, d, ps) == [c EXCEPT ![d] = [exists |-> TRUE, v |-> ps]]

NoOut == [prompts |-> <<>>, err |-> "none", req |-> FALSE, parsed |-> -1]

\* the record GenerateRebusPuzzles builds from prompt i (from 0)
NewRecord(d, i, prompt) ==
    [id |-> PuzzleID(d, i), date |-> d, index |-> i,
     img |-> GetImageURL(d, i),
     answer |-> NormalizeAnswer(prompt.answer), hint |-> prompt.hint]

\* --------------------------------------- the text of a reply, by character
\* the characters of a reply text: the two brackets and any other one
Chars == {"[", "]", "x"}
Texts == UNION {[1..n -> Chars] : n \in 0..MaxText}

\* strings.Index / strings.LastIndex for a one-character substring: the
\* index from 0 of the first / last occurrence, -1 if there is none
Index(s, c) ==
    IF \E i \in DOMAIN s : s[i] = c
    THEN (CHOOSE i \in DOMAIN s :
             s[i] = c /\ \A j \in DOMAIN s : s[j] = c => i <= j) - 1
    ELSE -1
LastIndex(s, c) ==
    IF \E i \in DOMAIN s : s[i] = c
    THEN (CHOOSE i \in DOMAIN s :
             s[i] = c /\ \A j \in DOMAIN s : s[j] = c => j <= i) - 1
    ELSE -1

\* the slice expression s[lo:hi]: a run-time panic unless
\* 0 <= lo <= hi <= len(s)
SliceOK(s, lo, hi) == 0 <= lo /\ lo <= hi /\ hi <= Len(s)
Slice(s, lo, hi) == SubSeq(s, lo + 1, hi)

NoText == [jsonText |-> <<>>, end |-> "none"]

\* GetPromptsFromClaude from `responseText := ...` to its return, on a text
\* made of Chars: no such text holds 5 objects, so the call ends with the
\* missing-array error, with the panic of the slice expression, with the
\* error of json.Unmarshal or, for the empty array, with the count error
HandleText(t) ==
    LET jsonStart == Index(t, "[")
        jsonEnd == LastIndex(t, "]")
    IN  IF jsonStart = -1 \/ jsonEnd = -1
        THEN [jsonText |-> <<>>,
              end |-> "could not find JSON array in Claude response"]
        ELSE IF ~SliceOK(t, jsonStart, jsonEnd + 1)
        THEN [jsonText |-> <<>>,
              end |-> "panic: slice bounds out of range"]
        ELSE LET jsonText == Slice(t, jsonStart, jsonEnd + 1)
             IN  IF jsonText = <<"[", "]">>
                 THEN [jsonText |-> jsonText,
                       end |-> "expected 5 prompts, got 0"]
                 ELSE [jsonText |-> jsonText,
                       end |-> "failed to parse prompts from Claude response"]

TextIdle ==
    /\ responseText = <<>>
    /\ textOut = NoText

PromptCallIdle ==
    /\ pgCache = [d \in DateInputs |-> NotCached]
    /\ gpc = "idle"
    /\ gdate = 0
    /\ gout = NoOut
    /\ gprev = [d \in DateInputs |-> NoOut]
    /\ puzzles = [d \in DateInputs |-> <<>>]

PromptIdle == PromptCallIdle /\ TextIdle

\* =============================== ImageGenerator.extractImageURL
\* JSON values of the output field: absent (no bytes), null, a string, a
\* number, an object, or an array of strings, numbers and nulls
StrTexts == {<<>>, <<"u">>, <<"v">>}
Elems == {[t |-> "str", s |-> x] : x \in StrTexts}
             \cup {[t |-> "num", s |-> <<>>], [t |-> "null", s |-> <<>>]}
Arrays == UNION {[1..n -> Elems] : n \in 0..MaxOut}
Outputs ==
    {[t |-> k, s |-> <<>>, a |-> <<>>] : k \in {"absent", "null", "num", "obj"}}
        \cup {[t |-> "str", s |-> x, a |-> <<>>] : x \in StrTexts}
        \cup {[t |-> "arr", s |-> <<>>, a |-> arr] : arr \in Arrays}

\* json.Unmarshal(outputRaw, &urlString): null leaves the string empty
AsString(v) ==
    [ok |-> v.t \in {"str", "null"},
     v |-> IF v.t = "str" THEN v.s ELSE <<>>]

\* json.Unmarshal(outputRaw, &urlArray): null gives the nil slice, a null
\* element an empty string, an element of another type an error
AsStringArray(v) ==
    [ok |-> \/ v.t = "null"
            \/ v.t = "arr" /\ \A i \in DOMAIN v.a : v.a[i].t \in {"str", "null"},
     v |-> IF v.t = "arr"
           THEN [i \in DOMAIN v.a |->
                    IF v.a[i].t = "str" THEN v.a[i].s ELSE <<>>]
           ELSE <<>>]

\* json.Unmarshal(outputRaw, &urlInterfaceArray)
AsInterfaceArray(v) ==
    [ok |-> v.t \in {"null", "arr"},
     v |-> IF v.t = "arr" THEN v.a ELSE <<>>]

\* urlArray[0]
FirstOfLast(arr) == arr[Len(arr)]
FirstOf(arr) == arr[1]

NoUrl == [url |-> <<>>, err |-> "none"]
Url(u) == [url |-> u, err |-> ""]
UrlErr(e) == [url |-> <<>>, err |-> e]

extractImageURL(v) ==
    IF v.t = "absent" THEN UrlErr("output is empty")
    ELSE IF AsString(v).ok /\ AsString(v).v # <<>>
    THEN Url(AsString(v).v)
    ELSE IF /\ AsStringArray(v).ok
            /\ Len(AsStringArray(v).v) > 0
            /\ FirstOf(AsStringArray(v).v) # <<>>
    THEN Url(FirstOf(AsStringArray(v).v))
    ELSE IF /\ AsInterfaceArray(v).ok
            /\ Len(AsInterfaceArray(v).v) > 0
            /\ FirstOf(AsInterfaceArray(v).v).t = "str"
            /\ FirstOf(AsInterfaceArray(v).v).s # <<>>
    THEN Url(FirstOf(AsInterfaceArray(v).v).s)
    ELSE UrlErr("could not extract image URL from output")

\* ------------------------------------------------ the other components
NoMsg == "<nil>"
NoErr == [kind |-> "", msg |-> ""]
Writers == {"timer", "manual"}
NoSeen == [date |-> EmptyDate, code |-> 0, rows |-> {}, had |-> FALSE]
\* localStorage.getItem returns null
NoItem == [has |-> FALSE, v |-> <<>>]

\* NewImageGenerator leaves modelVersion empty; no production has begun
RenderIdle ==
    /\ modelVersion = ""
    /\ rpc = "idle"
    /\ rpos = 0
    /\ attempt = 0
    /\ polls = 0
    /\ status = ""
    /\ predErr = NoMsg
    /\ url = NoUrl
    /\ rerr = NoErr
    /\ submitted = {}
    /\ stored = {}
    /\ dls = 0
    /\ prods = 0

VersionIdle ==
    /\ vpc = [c \in Handlers |-> "idle"]
    /\ vlocal = [c \in Handlers |-> ""]
    /\ vused = [c \in Handlers |-> ""]
    /\ vresolved = FALSE
    /\ vcalls = 0

\* InitSchema on a new database: the table exists and is empty
TxIdle ==
    /\ committed = {}
    /\ tpc = [w \in Writers |-> "idle"]
    /\ tdate = [w \in Writers |-> 0]
    /\ tsrc = [w \in Writers |-> 0]
    /\ tdel = [w \in Writers |-> {}]
    /\ tins = [w \in Writers |-> {}]
    /\ seen = NoSeen
    /\ txCount = 0

\* useState initial values, nothing in localStorage
DashIdle ==
    /\ solvedPuzzles = <<>>
    /\ currentPuzzleIndex = 0
    /\ storage = NoItem
    /\ pending = <<>>

RestIdle == RenderIdle /\ VersionIdle /\ TxIdle /\ DashIdle

ExtractIdle ==
    /\ outputRaw = [t |-> "absent", s |-> <<>>, a |-> <<>>]
    /\ epc = "idle"
    /\ eout = NoUrl

ExtractInit ==
    /\ SchedIdle
    /\ PromptIdle
    /\ RestIdle
    /\ outputRaw \in Outputs
    /\ epc = "call"
    /\ eout = NoUrl

ExtractImageURL ==
    /\ epc = "call"
    /\ epc' = "returned"
    /\ eout' = extractImageURL(outputRaw)
    /\ UNCHANGED <<outputRaw, core, pgen, rest>>

ExtractNext == ExtractImageURL

ExtractSpec == ExtractInit /\ [][ExtractNext]_vars

PromptInit == SchedIdle /\ PromptIdle /\ ExtractIdle /\ RestIdle

\* GenerateRebusPuzzles(d) calls GetPromptsFromClaude(d): the cache lookup
GetPromptsLookup(d) ==
    /\ gpc = "idle"
    /\ gdate' = d
    /\ IF pgCache[d].exists
       THEN /\ gout' = [prompts |-> pgCache[d].v, err |-> "",
                        req |-> FALSE, parsed |-> -1]
            /\ gpc' = "returned"
       ELSE /\ gout' = NoOut
            /\ gpc' = "request"
    /\ UNCHANGED <<pgCache, gprev, puzzles, ptext, core,
                   extr, rest>>

\* the request to the prompt service, the parsing of reply r, the length
\* check and the cache write
GetPromptsRequest(r) ==
    /\ gpc = "request"
    /\ gpc' = "returned"
    /\ IF ~r.ok
       THEN /\ gout' = [prompts |-> <<>>, err |-> "reply", req |-> TRUE,
                        parsed |-> -1]
            /\ UNCHANGED pgCache
       ELSE IF ~CountOK(Len(ParsePrompts(r)))
       THEN /\ gout' = [prompts |-> <<>>, err |-> "expected 5 prompts",
                        req |-> TRUE, parsed |-> Len(ParsePrompts(r))]
            /\ UNCHANGED pgCache
       ELSE /\ pgCache' = CacheWrite(pgCache, gdate, ParsePrompts(r))
            /\ gout' = [prompts |-> ParsePrompts(r), err |-> "",
                        req |-> TRUE, parsed |-> Len(ParsePrompts(r))]
    /\ UNCHANGED <<gdate, gprev, puzzles, ptext, core,
                   extr, rest>>

\* the rest of GenerateRebusPuzzles and the caller's SavePuzzles: on an
\* error of GetPromptsFromClaude or of a later stage nothing is written,
\* otherwise the records built from the prompts replace those of the date
GenerateAndSave(ok) ==
    /\ gpc = "returned"
    /\ gpc' = "idle"
    /\ gprev' = [gprev EXCEPT ![gdate] = gout]
    /\ gout' = NoOut
    /\ gdate' = 0
    /\ IF gout.err = "" /\ ok
       THEN puzzles' = [puzzles EXCEPT ![gdate] =
                          [i \in 1..Len(gout.prompts) |->
                              NewRecord(gdate, i - 1, gout.prompts[i])]]
       ELSE UNCHANGED puzzles
    /\ UNCHANGED <<pgCache, ptext, core,
                   extr, rest>>

PromptNext ==
    \/ \E d \in DateInputs : GetPromptsLookup(d)
    \/ \E r \in Replies : GetPromptsRequest(r)
    \/ \E ok \in BOOLEAN : GenerateAndSave(ok)

PromptSpec == PromptInit /\ [][PromptNext]_vars

\* ------------------- GetPromptsFromClaude on every reply text up to MaxText
TextInit ==
    /\ SchedIdle /\ PromptCallIdle /\ ExtractIdle /\ RestIdle
    /\ responseText \in Texts
    /\ textOut = NoText

\* the reply arrives and is handled
ReplyText ==
    /\ textOut = NoText
    /\ textOut' = HandleText(responseText)
    /\ UNCHANGED <<responseText, pgCache, gpc, gdate, gout, gprev, puzzles,
                   core, extr, rest>>

TextSpec == TextInit /\ [][ReplyText]_vars

Init == SchedInit /\ PromptIdle /\ ExtractIdle /\ RestIdle

\* the clock advances; a timer that elapses wakes the run() goroutine that
\* is parked in its select, which thereby takes the time.After case
Tick ==
    /\ ~panicked
    /\ now < MaxNow
    /\ now' = now + 1
    /\ pc' = [p \in Procs |->
                IF p \in Loops /\ pc[p] = "select" /\ nextRun[p] <= now + 1
                THEN "timer" ELSE pc[p]]
    /\ UNCHANGED <<conf, sched, stores, pipe, op, cdate, ret, nextRun,
                   calls, pre, acts, failed>>
    /\ UNCHANGED side

\* ------------------------------------------------- bound on concurrency
\* an execution is inside an operation (or has not yet handed its result on)
Active(p) == pc[p] \notin {"idle", "none", "compute", "select", "timer",
                           "exited"}
\* at most MaxActive operations overlap
MayBegin == Cardinality({p \in Procs : Active(p)}) < MaxActive

\* ------------------------------------------------------ Scheduler.Start
\* Start up to and including the existence query of checkAndRunIfNeeded
Start ==
    /\ ~panicked
    /\ pc[Ctl] = "idle"
    /\ started < startLimit
    /\ op' = [op EXCEPT ![Ctl] = "Start"]
    /\ IF running
       THEN UNCHANGED <<running, cdate, pre, pc>>
       ELSE /\ MayBegin
            /\ running' = TRUE
            /\ cdate' = [cdate EXCEPT ![Ctl] = GetTodayDate]
            /\ pre' = [pre EXCEPT ![Ctl] =
                         [exists |-> RowsOf(GetTodayDate) # {},
                          passed |-> now > ScheduledTime]]
            /\ pc' = [pc EXCEPT ![Ctl] =
                        IF HasPuzzlesForDate(GetTodayDate) THEN "spawn"
                        ELSE IF NowAfterScheduled(ScheduledTime) THEN "gen1"
                        ELSE "spawn"]
    /\ UNCHANGED <<now, conf, stopClosed, panicked, started, stores,
                   pipe, ret, nextRun, calls, acts, failed>>
    /\ UNCHANGED side

\* Start: `go s.run()` and return
StartSpawn ==
    /\ ~panicked
    /\ pc[Ctl] \in {"spawn", "gen_ret"}
    /\ op[Ctl] = "Start"
    /\ started' = started + 1
    /\ pc' = [pc EXCEPT ![Ctl] = "done", ![<<"run", started + 1>>] = "compute"]
    /\ op' = [op EXCEPT ![<<"run", started + 1>>] = "run"]
    /\ UNCHANGED <<now, conf, running, stopClosed, panicked, stores,
                   pipe, cdate, ret, nextRun, calls, pre, acts, failed>>
    /\ UNCHANGED side

\* ------------------------------------------------------- Scheduler.Stop
StopGuardNone(r) == FALSE
StopGuard(r) == ~r

\* closing stopChan wakes the run() goroutine that is parked in its select,
\* which thereby takes the stopChan case and returns
Stop ==
    /\ ~panicked
    /\ pc[Ctl] = "idle"
    /\ op' = [op EXCEPT ![Ctl] = "Stop"]
    /\ IF StopGuard(running)
       THEN UNCHANGED <<running, stopClosed, panicked, pc>>
       ELSE /\ running' = FALSE
            /\ IF stopClosed
               THEN /\ panicked' = TRUE
                    /\ UNCHANGED <<stopClosed, pc>>
               ELSE /\ stopClosed' = TRUE
                    /\ pc' = [p \in Procs |->
                                IF p \in Loops /\ pc[p] = "select"
                                THEN "exited" ELSE pc[p]]
                    /\ UNCHANGED panicked
    /\ UNCHANGED <<now, conf, started, stores, pipe, cdate, ret,
                   nextRun, calls, pre, acts, failed>>
    /\ UNCHANGED side

\* an operation has returned; its caller goes on
Return(p) ==
    /\ ~panicked
    /\ p \in Handlers \cup {Ctl}
    /\ pc[p] = "done"
    /\ pc' = [pc EXCEPT ![p] = "idle"]
    /\ op' = [op EXCEPT ![p] = IF p = Ctl THEN @ ELSE "none"]
    /\ cdate' = [cdate EXCEPT ![p] = 0]
    /\ date' = [date EXCEPT ![p] = 0]
    /\ prompts' = [prompts EXCEPT ![p] = NoTag]
    /\ built' = [built EXCEPT ![p] = EmptyBuilt]
    /\ ret' = [ret EXCEPT ![p] = NoRet]
    /\ pre' = [pre EXCEPT ![p] = NoPre]
    /\ acts' = [acts EXCEPT ![p] = {}]
    /\ failed' = [failed EXCEPT ![p] = NoFail]
    /\ UNCHANGED <<now, conf, sched, stores, nextRun, calls>>
    /\ UNCHANGED side

\* -------------------------------------------------------- Scheduler.run
\* one iteration of the loop up to the select: compute nextRun and the
\* duration, then either take a case that is ready (time.After of a
\* duration that is not positive is ready at once) or park
RunCompute(l) ==
    /\ ~panicked
    /\ l \in Loops
    /\ pc[l] \in {"compute", "gen_ret"}
    /\ LET next == NextRunTime(pc[l] = "gen_ret")
       IN  /\ nextRun' = [nextRun EXCEPT ![l] = next]
           /\ \E choice \in {"timer", "exited", "select"} :
                 /\ choice = "timer" => next - now <= 0
                 /\ choice = "exited" => stopClosed
                 /\ choice = "select" => next - now > 0 /\ ~stopClosed
                 /\ pc' = [pc EXCEPT ![l] = choice]
    /\ date' = [date EXCEPT ![l] = 0]
    /\ prompts' = [prompts EXCEPT ![l] = NoTag]
    /\ built' = [built EXCEPT ![l] = EmptyBuilt]
    /\ pre' = [pre EXCEPT ![l] = NoPre]
    /\ failed' = [failed EXCEPT ![l] = NoFail]
    /\ UNCHANGED <<now, conf, sched, stores, op, cdate, ret, calls,
                   acts>>
    /\ UNCHANGED side

\* case <-time.After(duration): s.generatePuzzlesForToday(), up to and
\* including its first existence query
RunTimer(l) ==
    /\ ~panicked
    /\ l \in Loops
    /\ pc[l] = "timer"
    /\ MayBegin
    /\ date' = [date EXCEPT ![l] = GetTodayDate]
    /\ pre' = [pre EXCEPT ![l] = [exists |-> RowsOf(GetTodayDate) # {},
                                  passed |-> FALSE]]
    /\ pc' = [pc EXCEPT ![l] = IF HasPuzzlesForDate(GetTodayDate)
                               THEN "gen_ret" ELSE "gen2"]
    /\ acts' = [acts EXCEPT ![l] = {}]
    /\ UNCHANGED <<now, conf, sched, stores, prompts, built, op,
                   cdate, ret, nextRun, calls, failed>>
    /\ UNCHANGED side

\* ------------------------------------ Scheduler.generatePuzzlesForToday
\* entry and first existence query, for a caller other than run()
GenCheck1(p) ==
    /\ ~panicked
    /\ pc[p] = "gen1"
    /\ date' = [date EXCEPT ![p] = GetTodayDate]
    /\ pc' = [pc EXCEPT ![p] = IF HasPuzzlesForDate(GetTodayDate)
                               THEN "gen_ret" ELSE "gen2"]
    /\ UNCHANGED <<now, conf, sched, stores, prompts, built, op,
                   cdate, ret, nextRun, calls, pre, acts, failed>>
    /\ UNCHANGED side

\* the second query: `if !s.store.HasPuzzlesForDate(today) { return }`
SecondCheckReturns(exists) == ~exists

GenCheck2(p) ==
    /\ ~panicked
    /\ pc[p] = "gen2"
    /\ pc' = [pc EXCEPT ![p] =
                IF SecondCheckReturns(HasPuzzlesForDate(date[p]))
                THEN "gen_ret" ELSE "prompts"]
    /\ UNCHANGED <<now, conf, sched, stores, pipe, op, cdate, ret,
                   nextRun, calls, pre, acts, failed>>
    /\ UNCHANGED side

\* ------------------------------------------------- errors of the pipeline
\* what the caller of GenerateRebusPuzzles / SavePuzzles does with an error:
\* generatePuzzlesForToday logs it and returns, TriggerManualGeneration
\* returns it (wrapped, for a generation error)
WrapErr(stage) == IF stage = "save" THEN <<"save">>
                  ELSE <<"failed to generate puzzles", stage>>

Fail(p, stage) ==
    /\ IF op[p] = "TriggerManual"
       THEN /\ pc' = [pc EXCEPT ![p] = "done"]
            /\ ret' = [ret EXCEPT ![p] = [generated |-> FALSE,
                                          err |-> WrapErr(stage)]]
       ELSE /\ pc' = [pc EXCEPT ![p] = "gen_ret"]
            /\ UNCHANGED ret

\* ------------------------------- PromptGenerator.GetPromptsFromClaude
\* `prompts, exists := pg.promptCache[date]`
CacheHitNever(d) == FALSE
CacheHit(d) == promptCache[d] # NoTag

\* the cache lookup under cacheMutex
PromptsLookup(p) ==
    /\ ~panicked
    /\ pc[p] = "prompts"
    /\ IF CacheHit(date[p])
       THEN /\ prompts' = [prompts EXCEPT ![p] = promptCache[date[p]]]
            /\ pc' = [pc EXCEPT ![p] = "render"]
       ELSE /\ pc' = [pc EXCEPT ![p] = "fetch"]
            /\ UNCHANGED prompts
    /\ UNCHANGED <<now, conf, sched, stores, date, built, op, cdate,
                   ret, nextRun, calls, pre, acts, failed>>
    /\ UNCHANGED side

\* `pg.promptCache[date] = prompts` under cacheMutex
CachePutIfAbsent(c, d, tag) == IF c[d] = NoTag THEN [c EXCEPT ![d] = tag]
                               ELSE c
CachePut(c, d, tag) == [c EXCEPT ![d] = tag]

\* the request to the prompt service, made with cacheMutex released; a
\* reply with 5 prompts is cached
PromptsFetch(p) ==
    /\ ~panicked
    /\ pc[p] = "fetch"
    /\ acts' = [acts EXCEPT ![p] = @ \cup {"prompt"}]
    /\ \E ok \in BOOLEAN :
          IF ok
          THEN /\ promptCache' = CachePut(promptCache, date[p], p)
               /\ prompts' = [prompts EXCEPT ![p] = p]
               /\ pc' = [pc EXCEPT ![p] = "render"]
               /\ UNCHANGED <<ret, failed>>
          ELSE /\ Fail(p, "prompt")
               /\ failed' = [failed EXCEPT ![p] = [stage |-> "prompt",
                                                   pos |-> 0]]
               /\ UNCHANGED <<promptCache, prompts>>
    /\ UNCHANGED <<now, conf, sched, table, images, saveCount, date,
                   built, op, cdate, nextRun, calls, pre>>
    /\ UNCHANGED side

\* --------------------------- RealAIGenerator.GenerateRebusPuzzles loop
\* where the loop goes when GenerateImageFromPrompt returned
AfterRenderSkipping(ok) == IF ok THEN "saveimg" ELSE "skip"
AfterRender(ok) == IF ok THEN "saveimg" ELSE "error"

\* `for i, prompt := range prompts` from position i on, in an environment
\* where the call of stage failStage at position failPos fails (failPos =
\* NumPuzzles: none fails).  st holds the image store, the puzzles slice,
\* the effects issued and the stage of the error returned.
RECURSIVE GenerateLoop(_, _, _, _, _, _)
GenerateLoop(d, tag, i, failPos, failStage, st) ==
    IF i >= NumPuzzles THEN st
    ELSE LET rendered == [st EXCEPT !.acts = @ \cup {"render"}]
             next == AfterRender(~(failPos = i /\ failStage = "render"))
         IN  IF next = "error"
             THEN [rendered EXCEPT !.err = "render"]
             ELSE IF next = "skip"
             THEN GenerateLoop(d, tag, i + 1, failPos, failStage, rendered)
             ELSE LET written == [rendered EXCEPT !.acts = @ \cup {"image"}]
                  IN  IF failPos = i /\ failStage = "image"
                      THEN [written EXCEPT !.err = "image"]
                      ELSE GenerateLoop(d, tag, i + 1, failPos, failStage,
                             [written EXCEPT
                                !.images[<<d, i>>] = tag,
                                !.built[i + 1] = NewPuzzle(d, i, tag)])

\* Step 2 of GenerateRebusPuzzles: the images of the 5 prompts, one by one.
\* No execution reads the image store or another execution's slice, so the
\* loop is one step.
GenerateImages(p) ==
    /\ ~panicked
    /\ pc[p] = "render"
    /\ \E failPos \in 0..NumPuzzles, failStage \in {"render", "image"} :
          LET r == GenerateLoop(date[p], prompts[p], 0, failPos, failStage,
                                [images |-> images, built |-> EmptyBuilt,
                                 acts |-> acts[p], err |-> "none"])
          IN  /\ images' = r.images
              /\ built' = [built EXCEPT ![p] = r.built]
              /\ acts' = [acts EXCEPT ![p] = r.acts]
              /\ failed' = [failed EXCEPT ![p] =
                              IF failPos < NumPuzzles
                              THEN [stage |-> failStage, pos |-> failPos]
                              ELSE @]
              /\ IF r.err = "none"
                 THEN /\ pc' = [pc EXCEPT ![p] = "save"]
                      /\ UNCHANGED ret
                 ELSE Fail(p, r.err)
    /\ UNCHANGED <<now, conf, sched, table, promptCache, saveCount,
                   date, prompts, op, cdate, nextRun, calls, pre>>
    /\ UNCHANGED side

\* the conversion of the pointers and s.store.SavePuzzles(date, puzzles):
\* one transaction that commits or leaves the table as it was
Save(p) ==
    /\ ~panicked
    /\ pc[p] = "save"
    /\ acts' = [acts EXCEPT ![p] = @ \cup {"save"}]
    /\ \E ok \in BOOLEAN :
          IF ok /\ InsertsOK(date[p], ToValues(built[p]))
          THEN /\ table' = SavePuzzles(date[p], ToValues(built[p]))
               /\ saveCount' = [saveCount EXCEPT ![date[p]] = @ + 1]
               /\ pc' = [pc EXCEPT ![p] = IF op[p] = "TriggerManual"
                                          THEN "done" ELSE "gen_ret"]
               /\ UNCHANGED <<ret, failed>>
          ELSE /\ Fail(p, "save")
               /\ failed' = [failed EXCEPT ![p] =
                               IF ok THEN @
                               ELSE [stage |-> "save", pos |-> 0]]
               /\ UNCHANGED <<table, saveCount>>
    /\ UNCHANGED <<now, conf, sched, images, promptCache, pipe, op,
                   cdate, nextRun, calls, pre>>
    /\ UNCHANGED side

\* ------------------------------------- Scheduler.TriggerTodayGeneration
\* requests are served by interchangeable goroutines: a request takes the
\* first free one
FirstFree(h) == /\ h \in Handlers
                /\ pc[h] = "idle"
                /\ \A g \in Handlers : g[2] < h[2] => pc[g] # "idle"

\* the call up to and including its existence query
TriggerToday(h) ==
    /\ ~panicked
    /\ FirstFree(h)
    /\ MayBegin
    /\ calls < MaxCalls
    /\ calls' = calls + 1
    /\ op' = [op EXCEPT ![h] = "TriggerToday"]
    /\ cdate' = [cdate EXCEPT ![h] = GetTodayDate]
    /\ pre' = [pre EXCEPT ![h] = [exists |-> RowsOf(GetTodayDate) # {},
                                  passed |-> FALSE]]
    /\ pc' = [pc EXCEPT ![h] = IF HasPuzzlesForDate(GetTodayDate)
                               THEN "done" ELSE "gen1"]
    /\ UNCHANGED <<now, conf, sched, stores, pipe, ret, nextRun,
                   acts, failed>>
    /\ UNCHANGED side

\* "Verify that puzzles were created" and return
TodayVerify(h) ==
    /\ ~panicked
    /\ h \in Handlers
    /\ pc[h] = "gen_ret"
    /\ op[h] = "TriggerToday"
    /\ pc' = [pc EXCEPT ![h] = "done"]
    /\ ret' = [ret EXCEPT ![h] =
                 IF ~HasPuzzlesForDate(cdate[h])
                 THEN [generated |-> FALSE,
                       err |-> <<"failed to generate puzzles for today">>]
                 ELSE [generated |-> TRUE, err |-> NilErr]]
    /\ UNCHANGED <<now, conf, sched, stores, pipe, op, cdate, nextRun,
                   calls, pre, acts, failed>>
    /\ UNCHANGED side

\* ------------------------------------ Scheduler.TriggerManualGeneration
\* the call up to and including its existence query
TriggerManual(h, d) ==
    /\ ~panicked
    /\ FirstFree(h)
    /\ MayBegin
    /\ calls < MaxCalls
    /\ calls' = calls + 1
    /\ op' = [op EXCEPT ![h] = "TriggerManual"]
    /\ pre' = [pre EXCEPT ![h] = [exists |-> RowsOf(d) # {},
                                  passed |-> FALSE]]
    /\ IF ~ValidateDate(d)
       THEN /\ ret' = [ret EXCEPT ![h] = [generated |-> FALSE,
                                          err |-> <<"invalid date">>]]
            /\ pc' = [pc EXCEPT ![h] = "done"]
            /\ UNCHANGED date
       ELSE IF HasPuzzlesForDate(d)
       THEN /\ ret' = [ret EXCEPT ![h] =
                         [generated |-> FALSE,
                          err |-> <<"puzzles already exist for date">>]]
            /\ pc' = [pc EXCEPT ![h] = "done"]
            /\ UNCHANGED date
       ELSE /\ pc' = [pc EXCEPT ![h] = "prompts"]
            /\ date' = [date EXCEPT ![h] = d]
            /\ UNCHANGED ret
    /\ cdate' = [cdate EXCEPT ![h] = d]
    /\ UNCHANGED <<now, conf, sched, stores, prompts, built, nextRun, acts,
                   failed>>
    /\ UNCHANGED side

\* ------------------------------------------------------------ the system
Next ==
    \/ Tick
    \/ Start
    \/ StartSpawn
    \/ Stop
    \/ \E p \in Procs : Return(p)
    \/ \E l \in Loops : RunCompute(l)
    \/ \E l \in Loops : RunTimer(l)
    \/ \E p \in Procs : GenCheck1(p)
    \/ \E p \in Procs : GenCheck2(p)
    \/ \E p \in Procs : PromptsLookup(p)
    \/ \E p \in Procs : PromptsFetch(p)
    \/ \E p \in Procs : GenerateImages(p)
    \/ \E p \in Procs : Save(p)
    \/ \E h \in Handlers : TriggerToday(h)
    \/ \E h \in Handlers : TodayVerify(h)
    \/ \E h \in Handlers, d \in DateInputs : TriggerManual(h, d)

Spec == Init /\ [][Next]_vars

\* ------------------------------------- the database fails the COUNT query
\* the connection to the database is lost: from here on the COUNT query
\* returns an error
QueryFault ==
    /\ ~panicked
    /\ ~queryFails
    /\ queryFails' = TRUE
    /\ UNCHANGED <<now, hourMinute, startLimit, sched, stores, pipe, pc, op,
                   cdate, ret, nextRun, calls, pre, acts, failed>>
    /\ UNCHANGED side

\* the scheduler and the triggers on a database whose existence query may
\* fail
FaultSpec == Init /\ [][Next \/ QueryFault]_vars

\* --------------------------------------------- main: graceful shutdown
\* `<-sigChan; sched.Stop(); os.Exit(0)` in the goroutine main launches
\* after sched.Start() has returned: Stop as above, then the process and
\* every goroutine of it end
Shutdown ==
    /\ ~panicked
    /\ started >= 1
    /\ pc[Ctl] = "idle"
    /\ IF StopGuard(running)
       THEN /\ pc' = [p \in Procs |-> "killed"]
            /\ UNCHANGED <<running, stopClosed, panicked>>
       ELSE /\ running' = FALSE
            /\ IF stopClosed
               THEN /\ panicked' = TRUE
                    /\ UNCHANGED <<stopClosed, pc>>
               ELSE /\ stopClosed' = TRUE
                    /\ pc' = [p \in Procs |-> "killed"]
                    /\ UNCHANGED panicked
    /\ UNCHANGED <<now, conf, started, stores, pipe, op, cdate, ret,
                   nextRun, calls, pre, acts, failed>>
    /\ UNCHANGED side

\* the server with its signal handler
ShutdownSpec == Init /\ [][Next \/ Shutdown]_vars

\* ------------------------------------------ a scheduler that is restarted
\* the caller of the Scheduler API starts it once more than main does
RestartInit ==
    SchedInitWith(MaxStarts + 1) /\ PromptIdle /\ ExtractIdle /\ RestIdle

RestartSpec == RestartInit /\ [][Next]_vars

TypeOK ==
    /\ now \in 0..MaxNow
    /\ running \in BOOLEAN
    /\ started \in 0..(MaxStarts + 1)
    /\ startLimit \in {MaxStarts, MaxStarts + 1}
    /\ queryFails \in BOOLEAN
    /\ calls \in 0..MaxCalls

\* ================================================================ claims
TrueNil == [generated |-> TRUE, err |-> NilErr]
FalseNil == [generated |-> FALSE, err |-> NilErr]
CompleteBatch(d) ==
    /\ Cardinality({r \in table : r.date = d}) = 5
    /\ {r.index : r \in {q \in table : q.date = d}} = 0..4
GenStages == {"prompt", "render", "image"}

\* C1: a TriggerTodayGeneration call that found no batch for today and in
\* which no stage failed returns (true, nil) and leaves exactly 5 records
\* for today at positions 0..4.
C1_TriggerTodayProduces ==
    \A h \in Handlers :
        (/\ pc[h] = "done"
         /\ op[h] = "TriggerToday"
         /\ ~pre[h].exists
         /\ failed[h].stage = "none")
        => (ret[h] = TrueNil /\ CompleteBatch(cdate[h]))

\* C2: at most one SavePuzzles transaction is ever committed for a date,
\* whatever the interleaving of the timer, the catch-up and the triggers.
C2_AtMostOneProduction == \A d \in Days : saveCount[d] <= 1

\* C3: a timer wake that finds no batch for the date and in which no stage
\* fails leaves the date's batch in the table; a timer wake that finds a
\* batch issues no request and no write.
C3_TimerWakeProduces ==
    \A l \in Loops :
        pc[l] = "gen_ret" =>
            /\ pre[l].exists => acts[l] = {}
            /\ (~pre[l].exists /\ failed[l].stage = "none")
                   => CompleteBatch(date[l])

C5_FailedProductionWritesNothing ==
    /\ [](\A p \in Procs :
            failed[p].stage \in GenStages
                => /\ "save" \notin acts[p]
                   /\ pc[p] \in {"done", "gen_ret"})
    /\ [][\A p \in Procs :
            (failed[p].stage = "none" /\ failed'[p].stage \in GenStages)
                => table' = table]_vars

C5_Witness ==
    \E p \in Procs :
        /\ failed[p] = [stage |-> "render", pos |-> 3]
        /\ ~pre[p].exists
        /\ pc[p] = "done"
        /\ {r \in table : r.date = date[p]} = {}

\* C6: for every date the table holds either no record or exactly 5, at
\* positions 0..4 without gap or duplicate, the record at position i having
\* the id "{date}-{i}".
C6_ZeroOrFivePerDate ==
    /\ \A r \in table : /\ r.date \in Days
                        /\ r.index \in 0..4
                        /\ r.id = <<r.date, r.index>>
    /\ \A d \in Days :
          \/ {r \in table : r.date = d} = {}
          \/ CompleteBatch(d)

C6_Witness ==
    \E d \in Days : saveCount[d] >= 1 /\ CompleteBatch(d)

\* C7: when Start is called after today's scheduled time with no batch for
\* today and no stage fails, today's batch exists when Start returns.
C7_CatchUpProduces ==
    (/\ pc[Ctl] = "done"
     /\ op[Ctl] = "Start"
     /\ pre[Ctl].passed
     /\ ~pre[Ctl].exists
     /\ failed[Ctl].stage = "none")
    => CompleteBatch(cdate[Ctl])

\* C8: a Start that finds today's batch, or is called before today's
\* scheduled time has passed, issues no prompt request, no render request,
\* no image write and no persistence write in its catch-up step.
C8_NoCatchUp ==
    (/\ op[Ctl] = "Start"
     /\ pc[Ctl] # "idle"
     /\ (pre[Ctl].exists \/ ~pre[Ctl].passed))
    => acts[Ctl] = {}

C8_Witness ==
    /\ pc[Ctl] = "done"
    /\ op[Ctl] = "Start"
    /\ pre[Ctl].exists
    /\ pre[Ctl].passed

C10_StopIdempotent ==
    [][~running =>
          /\ stopClosed' = stopClosed
          /\ panicked' = panicked
          /\ (running' = running \/ op'[Ctl] = "Start")]_vars

C10_Witness ==
    /\ op[Ctl] = "Stop"
    /\ pc[Ctl] = "idle"
    /\ ~running
    /\ stopClosed
    /\ ~panicked

\* C11: a TriggerTodayGeneration call returns true only when that very call
\* committed the SavePuzzles transaction for today, and it returns
\* (false, nil) only when rows for today existed at its pre-check.
C11_TrueOnlyForOwnProduction ==
    \A h \in Handlers :
        (pc[h] = "done" /\ op[h] = "TriggerToday") =>
            /\ ret[h].generated => "save" \in acts[h]
            /\ ret[h] = FalseNil => pre[h].exists

\* C12: when a stage failed in the production of a TriggerTodayGeneration
\* call, the call returns an error that names that stage.
C12_TodayErrorNamesStage ==
    \A h \in Handlers :
        (/\ pc[h] = "done"
         /\ op[h] = "TriggerToday"
         /\ failed[h].stage # "none")
        => (/\ ret[h].err # NilErr
            /\ failed[h].stage \in SeqRange(ret[h].err))

C15_CacheEntryNeverReplaced ==
    [][\A d \in Days :
          promptCache[d] # NoTag => promptCache'[d] = promptCache[d]]_vars

\* C15 as amended: an entry is never removed; no call that looks the date up
\* while the entry exists goes on to the prompt service, so an entry is
\* replaced only by the write of a call that missed the cache before the
\* entry was written.
C15_CacheEntryKeptLastWriteWins ==
    [][/\ \A d \in Days :
             promptCache[d] # NoTag =>
                 /\ promptCache'[d] # NoTag
                 /\ promptCache'[d] # promptCache[d] =>
                       \E p \in Procs : /\ pc[p] = "fetch"
                                        /\ date[p] = d
                                        /\ promptCache'[d] = p
       /\ \A p \in Procs :
             (pc[p] # "fetch" /\ pc'[p] = "fetch")
                 => promptCache[date'[p]] = NoTag]_vars

C15_Witness ==
    \E p, q \in Procs :
        /\ p # q
        /\ date[p] = date[q]
        /\ prompts[p] = p
        /\ promptCache[date[p]] = q

\* ------------------------------------------- claims on the prompt stage
HasAllFields(q) == q.prompt # <<>> /\ q.answer # <<>> /\ q.hint # <<>>
IsNormal(a) ==
    /\ \A i \in DOMAIN a : a[i] \notin UpperCase
    /\ a # <<>> => (a[1] # " " /\ a[Len(a)] # " ")

C16_WrongCountIsError ==
    (gpc = "returned" /\ gout.req /\ gout.parsed \notin {-1, 5}) =>
        /\ gout.err # ""
        /\ gout.prompts = <<>>
        /\ ~pgCache[gdate].exists

C16_Witness ==
    /\ gpc = "returned"
    /\ gout.parsed > 5
    /\ gout.err = "expected 5 prompts"

\* C17: no prompt that lacks its text, its answer or its hint is returned,
\* is cached or becomes a puzzle record.
C17_MissingFieldRejected ==
    /\ \A i \in DOMAIN gout.prompts : HasAllFields(gout.prompts[i])
    /\ \A d \in DateInputs :
          /\ \A i \in DOMAIN pgCache[d].v : HasAllFields(pgCache[d].v[i])
          /\ \A i \in DOMAIN puzzles[d] :
                puzzles[d][i].answer # <<>> /\ puzzles[d][i].hint # <<>>

AllStrings(arr) == \A i \in DOMAIN arr : arr[i].t = "str"
HasLaterString(arr) ==
    \E i \in DOMAIN arr : arr[i].t = "str" /\ arr[i].s # <<>>
FirstNonEmpty(arr) ==
    arr[CHOOSE i \in DOMAIN arr :
            /\ arr[i].t = "str" /\ arr[i].s # <<>>
            /\ \A j \in 1..(i - 1) : ~(arr[j].t = "str" /\ arr[j].s # <<>>)].s

\* C19: extractImageURL returns the string when the output is a non-empty
\* string, the first element when the output is an array of one or more
\* strings, and an error when the output is null, absent or an empty array.
C19_ExtractByShape ==
    epc = "returned" =>
        /\ (outputRaw.t = "str" /\ outputRaw.s # <<>>)
              => eout = [url |-> outputRaw.s, err |-> ""]
        /\ (outputRaw.t = "arr" /\ Len(outputRaw.a) >= 1
                /\ AllStrings(outputRaw.a))
              => eout = [url |-> outputRaw.a[1].s, err |-> ""]
        /\ (outputRaw.t \in {"null", "absent"}
                \/ (outputRaw.t = "arr" /\ outputRaw.a = <<>>))
              => (eout.err # "" /\ eout.url = <<>>)

\* C19 as amended: the same, the array case for an array of strings whose
\* first element is not empty.
C19_ExtractByShapeFirstNonEmpty ==
    epc = "returned" =>
        /\ (outputRaw.t = "str" /\ outputRaw.s # <<>>)
              => eout = [url |-> outputRaw.s, err |-> ""]
        /\ (outputRaw.t = "arr" /\ Len(outputRaw.a) >= 1
                /\ AllStrings(outputRaw.a) /\ outputRaw.a[1].s # <<>>)
              => eout = [url |-> outputRaw.a[1].s, err |-> ""]
        /\ (outputRaw.t \in {"null", "absent"}
                \/ (outputRaw.t = "arr" /\ outputRaw.a = <<>>))
              => (eout.err # "" /\ eout.url = <<>>)

C19_Witness ==
    /\ epc = "returned"
    /\ outputRaw.t = "arr"
    /\ Len(outputRaw.a) = 2
    /\ AllStrings(outputRaw.a)
    /\ outputRaw.a[1].s = <<"u">>
    /\ outputRaw.a[2].s = <<"v">>
    /\ eout = [url |-> <<"u">>, err |-> ""]

\* C20: for an array that contains a non-empty string, extractImageURL
\* returns the first non-empty string of the array, also when elements
\* before it are empty strings or not strings.
C20_FirstNonEmptyOfArray ==
    (epc = "returned" /\ outputRaw.t = "arr" /\ HasLaterString(outputRaw.a))
        => eout = [url |-> FirstNonEmpty(outputRaw.a), err |-> ""]

\* C27: every next run time the loop computes is the earliest occurrence of
\* the configured (hour, minute) that is strictly later than the current
\* time, so the wait is never zero.
C27_NextRunStrictlyLater ==
    [][\A l \in Loops :
          (pc[l] \in {"compute", "gen_ret"} /\ pc'[l] \notin {"compute", "gen_ret"})
          => (/\ nextRun'[l] % DayLen = hourMinute
              /\ nextRun'[l] > now
              /\ nextRun'[l] - DayLen <= now)]_vars

\* C24: whatever productions have written a date, the timer-driven and a
\* manual one after passing their existence checks in particular, the
\* records of the date are one complete batch of 5 that all come from the
\* same production.
C24_NeverMixedBatch ==
    \A d \in Days :
        \/ {r \in table : r.date = d} = {}
        \/ /\ CompleteBatch(d)
           /\ \A r, q \in {x \in table : x.date = d} : r.src = q.src

C24_Witness ==
    \E l \in Loops, h \in Handlers :
        /\ op[h] = "TriggerManual"
        /\ date[h] = date[l]
        /\ "save" \in acts[h]
        /\ "save" \in acts[l]
        /\ saveCount[date[l]] = 2
        /\ \A r \in table : r.date = date[l] => r.src \in {l, h}
        /\ CompleteBatch(date[l])

\* =============================== the render loop of GenerateRebusPuzzles
\* One production after another on one ImageGenerator: createPrediction,
\* pollPrediction request by request, downloadImage, SaveImage, for the
\* positions in the order of `range prompts`.
Versions == {"v1", "v2"}
Statuses == {"succeeded", "failed", "canceled", "starting", "processing",
             "queued", "submitted"}
Terminal == {"succeeded", "failed", "canceled"}
NonTerminal == Statuses \ Terminal
ErrMsgs == {NoMsg, "oom"}

\* what one status request can bring back: no response at all, or a
\* prediction with its status, output and error fields
PollReplies ==
    {[ok |-> FALSE, status |-> "none", out |-> o, err |-> NoMsg] :
        o \in {[t |-> "absent", s |-> <<>>, a |-> <<>>]}}
    \cup {[ok |-> TRUE, status |-> "succeeded", out |-> o, err |-> NoMsg] :
            o \in Outputs}
    \cup {[ok |-> TRUE, status |-> "failed", out |-> o, err |-> e] :
            o \in {[t |-> "null", s |-> <<>>, a |-> <<>>]}, e \in ErrMsgs}
    \cup {[ok |-> TRUE, status |-> st, out |-> o, err |-> NoMsg] :
            st \in Statuses \ {"succeeded", "failed"},
            o \in {[t |-> "null", s |-> <<>>, a |-> <<>>]}}

\* getModelVersion: the cached version when there is one, otherwise the
\* answer of the metadata query (reply "" = request failed or no latest
\* version), cached when it is a version
getModelVersion(mv, reply) ==
    IF mv # ""
    THEN [v |-> mv, ok |-> TRUE, req |-> FALSE, cache |-> mv]
    ELSE IF reply = ""
    THEN [v |-> "", ok |-> FALSE, req |-> TRUE, cache |-> mv]
    ELSE [v |-> reply, ok |-> TRUE, req |-> TRUE, cache |-> reply]

\* errorMsg of the "failed" case
FailedMessageGeneric(e) == "unknown error"
FailedMessage(e) == IF e = NoMsg THEN "unknown error" ELSE e

\* the next index of `for i, prompt := range prompts`
NextIndexSkipping(i) == i + 2
NextIndex(i) == i + 1

\* the production returns the error
RenderFail(kind, msg) ==
    /\ rpc' = "error"
    /\ rerr' = [kind |-> kind, msg |-> msg]

RenderInit == SchedIdle /\ PromptIdle /\ ExtractIdle /\ RestIdle

\* GenerateRebusPuzzles has its 5 prompts and enters the loop
BeginRender ==
    /\ rpc = "idle"
    /\ prods < MaxProds
    /\ prods' = prods + 1
    /\ rpc' = "create"
    /\ rpos' = 0
    /\ attempt' = 0
    /\ polls' = 0
    /\ status' = ""
    /\ predErr' = NoMsg
    /\ url' = NoUrl
    /\ rerr' = NoErr
    /\ submitted' = {}
    /\ stored' = {}
    /\ dls' = 0
    /\ UNCHANGED <<modelVersion, core, pgen, extr, vers, txn, dash>>

\* GenerateImageFromPrompt step 1, createPrediction: the model version,
\* then the POST; `reply` is what a metadata query would answer, `ok`
\* whether the POST is accepted
CreatePrediction(reply, ok) ==
    /\ rpc = "create"
    /\ LET r == getModelVersion(modelVersion, reply)
       IN  /\ modelVersion' = r.cache
           /\ IF ~r.ok
              THEN /\ RenderFail("failed to get model version", "")
                   /\ UNCHANGED submitted
              ELSE IF ~ok
              THEN /\ RenderFail("failed to create prediction", "")
                   /\ UNCHANGED submitted
              ELSE /\ rpc' = "poll"
                   /\ submitted' = submitted \cup {rpos}
                   /\ UNCHANGED rerr
    /\ attempt' = 0
    /\ polls' = 0
    /\ dls' = 0
    /\ status' = ""
    /\ predErr' = NoMsg
    /\ url' = NoUrl
    /\ UNCHANGED <<rpos, stored, prods, core, pgen, extr, vers, txn, dash>>

\* one iteration of the loop of pollPrediction: the request and the switch
PollPrediction(reply) ==
    /\ rpc = "poll"
    /\ attempt < maxAttempts
    /\ polls' = polls + 1
    /\ status' = reply.status
    /\ predErr' = reply.err
    /\ IF ~reply.ok
       THEN /\ RenderFail("failed to poll prediction", "")
            /\ UNCHANGED <<attempt, url>>
       ELSE IF reply.status = "succeeded"
       THEN /\ url' = extractImageURL(reply.out)
            /\ IF extractImageURL(reply.out).err = ""
               THEN rpc' = "download" /\ UNCHANGED rerr
               ELSE RenderFail("failed to extract image URL",
                               extractImageURL(reply.out).err)
            /\ UNCHANGED attempt
       ELSE IF reply.status = "failed"
       THEN /\ RenderFail("prediction failed", FailedMessage(reply.err))
            /\ UNCHANGED <<attempt, url>>
       ELSE IF reply.status = "canceled"
       THEN /\ RenderFail("prediction was canceled", "")
            /\ UNCHANGED <<attempt, url>>
       ELSE IF reply.status \in {"starting", "processing"}
       THEN /\ attempt' = attempt + 1
            /\ UNCHANGED <<rpc, rerr, url>>
       ELSE /\ RenderFail("unknown prediction status", reply.status)
            /\ UNCHANGED <<attempt, url>>
    /\ UNCHANGED <<modelVersion, rpos, submitted, stored, dls, prods,
                   core, pgen, extr, vers, txn, dash>>

\* `attempt < maxAttempts` is false: the loop ends
PollTimeout ==
    /\ rpc = "poll"
    /\ attempt >= maxAttempts
    /\ RenderFail("prediction timed out", "")
    /\ UNCHANGED <<modelVersion, rpos, attempt, polls, status, predErr, url,
                   submitted, stored, dls, prods,
                   core, pgen, extr, vers, txn, dash>>

\* GenerateImageFromPrompt step 3
DownloadImage(ok) ==
    /\ rpc = "download"
    /\ dls' = dls + 1
    /\ IF ok
       THEN rpc' = "store" /\ UNCHANGED rerr
       ELSE RenderFail("failed to download image", "")
    /\ UNCHANGED <<modelVersion, rpos, attempt, polls, status, predErr, url,
                   submitted, stored, prods,
                   core, pgen, extr, vers, txn, dash>>

\* imageStore.SaveImage(date, i, imageData), puzzles[i], and the loop's
\* step to the next prompt
SaveImage(ok) ==
    /\ rpc = "store"
    /\ IF ok
       THEN /\ stored' = stored \cup {rpos}
            /\ rpos' = NextIndex(rpos)
            /\ rpc' = IF NextIndex(rpos) >= NumPuzzles THEN "done"
                      ELSE "create"
            /\ UNCHANGED rerr
       ELSE /\ RenderFail("failed to save image", "")
            /\ UNCHANGED <<stored, rpos>>
    /\ UNCHANGED <<modelVersion, attempt, polls, status, predErr, url,
                   submitted, dls, prods,
                   core, pgen, extr, vers, txn, dash>>

\* GenerateRebusPuzzles returns the puzzles or the error
ReturnRender ==
    /\ rpc \in {"done", "error"}
    /\ rpc' = "idle"
    /\ UNCHANGED <<modelVersion, rpos, attempt, polls, status, predErr, url,
                   rerr, submitted, stored, dls, prods,
                   core, pgen, extr, vers, txn, dash>>

RenderNext ==
    \/ BeginRender
    \/ \E reply \in Versions \cup {""}, ok \in BOOLEAN :
          CreatePrediction(reply, ok)
    \/ \E reply \in PollReplies : PollPrediction(reply)
    \/ PollTimeout
    \/ \E ok \in BOOLEAN : DownloadImage(ok)
    \/ \E ok \in BOOLEAN : SaveImage(ok)
    \/ ReturnRender

RenderSpec == RenderInit /\ [][RenderNext]_vars

\* C21: a response with a status other than succeeded, failed or canceled
\* makes the client wait and poll again; it never ends the call.
C21_NonTerminalStatusPollsAgain ==
    [][(polls' = polls + 1 /\ status' \in NonTerminal) => rpc' = "poll"]_vars

\* C22: at most 60 status requests are issued for one job, and when the
\* 60th response is non-terminal as the 59 before it, the call ends with
\* the timeout error.
C22_SixtyNonTerminalIsTimeout ==
    /\ polls <= maxAttempts
    /\ (rpc = "error" /\ polls = maxAttempts /\ status \in NonTerminal)
          => rerr.kind = "prediction timed out"

\* C28: within one production a job is submitted for a position only when
\* the images of all earlier positions are stored, at most one job is
\* unfinished at a time, and once a position has failed no job is
\* submitted any more.
C28_OneAtATimeInOrder ==
    [][/\ \A i \in submitted' : \A j \in 0..(i - 1) : j \in stored'
       /\ Cardinality(submitted' \ stored') <= 1
       /\ (rerr.kind # "" /\ prods' = prods) => submitted' = submitted]_vars

C28_Witness ==
    /\ rpc = "error"
    /\ rpos = 2
    /\ submitted = {0, 1, 2}
    /\ stored = {0, 1}

\* C29: in one GenerateImageFromPrompt call a status request is made only
\* for a created job, the download only after a response with status
\* succeeded and an extractable URL; status failed ends the call with an
\* error that carries the service's message, or "unknown error" when there
\* is none, status canceled with an error; after the error there is no
\* download and no further status request.
C29_SubmitPollFetch ==
    [][/\ polls' > polls => rpos \in submitted
       /\ dls' > dls => (status = "succeeded" /\ url.err = "" /\ polls > 0)
       /\ (polls' > polls /\ status' = "failed")
             => /\ rpc' = "error"
                /\ rerr'.kind = "prediction failed"
                /\ rerr'.msg = (IF predErr' = NoMsg THEN "unknown error"
                                ELSE predErr')
                /\ dls' = dls
       /\ (polls' > polls /\ status' = "canceled")
             => /\ rpc' = "error"
                /\ rerr'.kind = "prediction was canceled"
                /\ dls' = dls
       /\ rpc = "error" => (polls' = polls /\ dls' = dls)]_vars

C29_Witness ==
    /\ rpc = "error"
    /\ status = "failed"
    /\ polls = 2
    /\ dls = 0
    /\ rerr = [kind |-> "prediction failed", msg |-> "oom"]

\* =============================== createPrediction calls that overlap
\* Productions of different callers (the run loop, the trigger handlers)
\* use the one ImageGenerator at the same time; getModelVersion reads and
\* writes ig.modelVersion without a lock, so its steps interleave.
VersionInit == SchedIdle /\ PromptIdle /\ ExtractIdle /\ RestIdle

\* a caller enters createPrediction
VersionCall(c) ==
    /\ vpc[c] = "idle"
    /\ vcalls < MaxRenders
    /\ vcalls' = vcalls + 1
    /\ vpc' = [vpc EXCEPT ![c] = "check"]
    /\ UNCHANGED <<vlocal, vused, vresolved, modelVersion, rloop,
                   core, pgen, extr, txn, dash>>

\* `if ig.modelVersion != ""`
VersionCheck(c) ==
    /\ vpc[c] = "check"
    /\ IF getModelVersion(modelVersion, "").ok
       THEN /\ vlocal' = [vlocal EXCEPT ![c] = modelVersion]
            /\ vpc' = [vpc EXCEPT ![c] = "submit"]
       ELSE /\ vlocal' = [vlocal EXCEPT ![c] = ""]
            /\ vpc' = [vpc EXCEPT ![c] = "fetch"]
    /\ UNCHANGED <<vused, vresolved, vcalls, modelVersion, rloop,
                   core, pgen, extr, txn, dash>>

\* fetchLatestModelVersion: the metadata request and its answer
VersionFetch(c, reply) ==
    /\ vpc[c] = "fetch"
    /\ IF getModelVersion("", reply).ok
       THEN /\ vlocal' = [vlocal EXCEPT ![c] = reply]
            /\ vresolved' = TRUE
            /\ vpc' = [vpc EXCEPT ![c] = "cache"]
       ELSE /\ vpc' = [vpc EXCEPT ![c] = "idle"]
            /\ UNCHANGED <<vlocal, vresolved>>
    /\ UNCHANGED <<vused, vcalls, modelVersion, rloop,
                   core, pgen, extr, txn, dash>>

\* `ig.modelVersion = version`
VersionCache(c) ==
    /\ vpc[c] = "cache"
    /\ modelVersion' = getModelVersion("", vlocal[c]).cache
    /\ vpc' = [vpc EXCEPT ![c] = "submit"]
    /\ UNCHANGED <<vlocal, vused, vresolved, vcalls, rloop,
                   core, pgen, extr, txn, dash>>

\* the POST with "version": modelVersion
VersionSubmit(c) ==
    /\ vpc[c] = "submit"
    /\ vused' = [vused EXCEPT ![c] = vlocal[c]]
    /\ vpc' = [vpc EXCEPT ![c] = "idle"]
    /\ UNCHANGED <<vlocal, vresolved, vcalls, modelVersion, rloop,
                   core, pgen, extr, txn, dash>>

VersionNext ==
    \/ \E c \in Handlers : VersionCall(c)
    \/ \E c \in Handlers : VersionCheck(c)
    \/ \E c \in Handlers, reply \in Versions \cup {""} : VersionFetch(c, reply)
    \/ \E c \in Handlers : VersionCache(c)
    \/ \E c \in Handlers : VersionSubmit(c)

VersionSpec == VersionInit /\ [][VersionNext]_vars

\* C30: once a metadata query has returned a version no further metadata
\* request is made, and every submission after that carries the cached
\* version.
C30_ResolvedOnce ==
    [][\A c \in Handlers :
          /\ (vpc[c] = "fetch" /\ vpc'[c] # "fetch") => ~vresolved
          /\ (vpc[c] = "submit" /\ vpc'[c] = "idle" /\ modelVersion # "")
                => vused'[c] = modelVersion]_vars

\* =============================== DB.SavePuzzles statement by statement
\* Two SavePuzzles callers and the GET handler on one PostgreSQL table
\* (READ COMMITTED): rows a transaction has deleted or inserted are not
\* visible to others before its commit; a DELETE waits for the rows another
\* transaction has deleted; an INSERT waits for a row with the same key
\* that another transaction has inserted or is deleting, and fails on one
\* that is committed.  A row is (date, index_num, producing call); id is
\* "<date>-<index_num>", so PRIMARY KEY (id) and UNIQUE (date, index_num)
\* are the same key.
\* two calendar dates, and a string that is not a date
TxDates == {0, 1}
BadTxDate == 2
OldSrc == 0
BatchOf(d, n) == {[date |-> d, idx |-> i, src |-> n] : i \in Positions}
RowsFor(rows, d) == {r \in rows : r.date = d}
Key(r) == <<r.date, r.idx>>

\* rows left by earlier runs of the server: complete batches
PersistedTables == {UNION {BatchOf(d, OldSrc) : d \in ds} : ds \in SUBSET TxDates}

\* the rows another transaction holds locked by its DELETE
LockedByOther(w) ==
    UNION {tdel[o] : o \in {x \in Writers : x # w /\ tpc[x] \in {"insert", "commit"}}}
\* the rows other transactions have inserted and not committed
InsertedByOther(w) ==
    UNION {tins[o] : o \in {x \in Writers : x # w /\ tpc[x] \in {"insert", "commit"}}}

\* SELECT ... FROM puzzles WHERE date = $1 outside any transaction
GetPuzzlesForDateDirty(d) ==
    RowsFor((committed \ UNION {tdel[w] : w \in {x \in Writers : tpc[x] \in {"insert", "commit"}}})
                \cup UNION {tins[w] : w \in Writers}, d)
GetPuzzlesForDate(d) == RowsFor(committed, d)

\* `defer tx.Rollback()` after an error return
TxFail(w) ==
    /\ tpc' = [tpc EXCEPT ![w] = "failed"]
    /\ tdel' = [tdel EXCEPT ![w] = {}]
    /\ tins' = [tins EXCEPT ![w] = {}]
    /\ UNCHANGED committed

SaveInit ==
    /\ SchedIdle /\ PromptIdle /\ ExtractIdle
    /\ RenderIdle /\ VersionIdle /\ DashIdle
    /\ committed \in PersistedTables
    /\ tpc = [w \in Writers |-> "idle"]
    /\ tdate = [w \in Writers |-> 0]
    /\ tsrc = [w \in Writers |-> 0]
    /\ tdel = [w \in Writers |-> {}]
    /\ tins = [w \in Writers |-> {}]
    /\ seen = NoSeen
    /\ txCount = 0

\* SavePuzzles(d, puzzles) is called with the 5 records of a production;
\* db.Begin()
TxBegin(w, d, ok) ==
    /\ tpc[w] = "idle"
    /\ txCount < MaxTx
    /\ txCount' = txCount + 1
    /\ tdate' = [tdate EXCEPT ![w] = d]
    /\ tsrc' = [tsrc EXCEPT ![w] = txCount + 1]
    /\ tpc' = [tpc EXCEPT ![w] = IF ok THEN "delete" ELSE "failed"]
    /\ tdel' = [tdel EXCEPT ![w] = {}]
    /\ tins' = [tins EXCEPT ![w] = {}]
    /\ UNCHANGED <<committed, seen, core, pgen, extr, rend, vers, dash>>

\* DELETE FROM puzzles WHERE date = $1 starts: the rows it sees
TxDelete(w, ok) ==
    /\ tpc[w] = "delete"
    /\ IF ok
       THEN /\ tdel' = [tdel EXCEPT ![w] = RowsFor(committed, tdate[w])]
            /\ tpc' = [tpc EXCEPT ![w] = "locking"]
            /\ UNCHANGED <<tins, committed>>
       ELSE TxFail(w)
    /\ UNCHANGED <<tdate, tsrc, seen, txCount,
                   core, pgen, extr, rend, vers, dash>>

\* the DELETE has every row lock: it marks the rows that still exist
TxDeleteLocked(w) ==
    /\ tpc[w] = "locking"
    /\ tdel[w] \cap LockedByOther(w) = {}
    /\ tdel' = [tdel EXCEPT ![w] = tdel[w] \cap committed]
    /\ tpc' = [tpc EXCEPT ![w] = "insert"]
    /\ UNCHANGED <<committed, tdate, tsrc, tins, seen, txCount,
                   core, pgen, extr, rend, vers, dash>>

\* stmt.Exec of the next record of the slice
TxInsert(w, ok) ==
    /\ tpc[w] = "insert"
    /\ LET row == [date |-> tdate[w], idx |-> Cardinality(tins[w]),
                   src |-> tsrc[w]]
           same == {r \in committed \ tdel[w] : Key(r) = Key(row)}
       IN  /\ same \cap LockedByOther(w) = {}
           /\ \A r \in InsertedByOther(w) : Key(r) # Key(row)
           /\ IF ok /\ same = {}
              THEN /\ tins' = [tins EXCEPT ![w] = tins[w] \cup {row}]
                   /\ tpc' = [tpc EXCEPT ![w] =
                                IF Cardinality(tins[w]) + 1 = NumPuzzles
                                THEN "commit" ELSE "insert"]
                   /\ UNCHANGED <<tdel, committed>>
              ELSE TxFail(w)
    /\ UNCHANGED <<tdate, tsrc, seen, txCount,
                   core, pgen, extr, rend, vers, dash>>

\* tx.Commit()
TxCommit(w, ok) ==
    /\ tpc[w] = "commit"
    /\ IF ok
       THEN /\ committed' = (committed \ tdel[w]) \cup tins[w]
            /\ tpc' = [tpc EXCEPT ![w] = "done"]
            /\ UNCHANGED <<tdel, tins>>
       ELSE TxFail(w)
    /\ UNCHANGED <<tdate, tsrc, seen, txCount,
                   core, pgen, extr, rend, vers, dash>>

\* SavePuzzles returns nil or the error
TxReturn(w) ==
    /\ tpc[w] \in {"done", "failed"}
    /\ tpc' = [tpc EXCEPT ![w] = "idle"]
    /\ tdel' = [tdel EXCEPT ![w] = {}]
    /\ tins' = [tins EXCEPT ![w] = {}]
    /\ UNCHANGED <<committed, tdate, tsrc, seen, txCount,
                   core, pgen, extr, rend, vers, dash>>

\* GET /api/puzzles/{date}: 400 for a date ValidateDate rejects, 404 when
\* the query returns an error, otherwise 200 with the rows of the query
GetPuzzlesHandler(d, ok) ==
    /\ seen' = IF d \notin TxDates
               THEN [date |-> d, code |-> 400, rows |-> {}, had |-> FALSE]
               ELSE IF ~ok
               THEN [date |-> d, code |-> 404, rows |-> {},
                     had |-> RowsFor(committed, d) # {}]
               ELSE [date |-> d, code |-> 200, rows |-> GetPuzzlesForDate(d),
                     had |-> RowsFor(committed, d) # {}]
    /\ UNCHANGED <<committed, tpc, tdate, tsrc, tdel, tins, txCount,
                   core, pgen, extr, rend, vers, dash>>

SaveNext ==
    \/ \E w \in Writers, d \in TxDates, ok \in BOOLEAN : TxBegin(w, d, ok)
    \/ \E w \in Writers, ok \in BOOLEAN : TxDelete(w, ok)
    \/ \E w \in Writers : TxDeleteLocked(w)
    \/ \E w \in Writers, ok \in BOOLEAN : TxInsert(w, ok)
    \/ \E w \in Writers, ok \in BOOLEAN : TxCommit(w, ok)
    \/ \E w \in Writers : TxReturn(w)
    \/ \E d \in TxDates \cup {BadTxDate}, ok \in BOOLEAN : GetPuzzlesHandler(d, ok)

SaveSpec == SaveInit /\ [][SaveNext]_vars

OneBatch(rows) ==
    /\ {r.idx : r \in rows} = Positions
    /\ Cardinality(rows) = NumPuzzles
    /\ \A r, q \in rows : r.src = q.src

\* C23: a SavePuzzles call that succeeds leaves exactly its records for
\* its date, also when the date had records, and leaves the rows of every
\* other date as they were; the committed rows of a date are always none
\* or one whole batch and never become none again; a reader is never given
\* a partial or mixed set of rows, and never none for a date that has rows.
C23_ReplaceIsAtomic ==
    [][/\ \A w \in Writers :
             (tpc[w] = "commit" /\ tpc'[w] = "done")
                => /\ RowsFor(committed', tdate[w]) = BatchOf(tdate[w], tsrc[w])
                   /\ \A e \in TxDates \ {tdate[w]} :
                         RowsFor(committed', e) = RowsFor(committed, e)
       /\ \A d \in TxDates :
             /\ RowsFor(committed', d) = {} \/ OneBatch(RowsFor(committed', d))
             /\ RowsFor(committed, d) # {} => RowsFor(committed', d) # {}
       /\ seen'.code = 200
             => /\ seen'.rows = {} \/ OneBatch(seen'.rows)
                /\ seen'.had => seen'.rows # {}]_vars

C23_Witness ==
    \E w \in Writers :
        /\ tpc[w] = "done"
        /\ tdel[w] = BatchOf(tdate[w], OldSrc)
        /\ RowsFor(committed, tdate[w]) = BatchOf(tdate[w], tsrc[w])
        /\ \E e \in TxDates \ {tdate[w]} : RowsFor(committed, e) # {}
        /\ seen.code = 200
        /\ seen.date = tdate[w]
        /\ seen.rows = BatchOf(tdate[w], OldSrc)

\* C25: a GET for a valid date is answered 200 only with the batch of the
\* date; a date without a batch is answered 404.
C25_AbsentBatchIsNotFound ==
    /\ seen.code = 200 => seen.rows # {}
    /\ (seen.code # 0 /\ seen.date \in TxDates /\ ~seen.had) => seen.code = 404

\* =============================== the dashboard (App.jsx)
\* One browser tab showing the 5 puzzles of today.  A verify request in
\* flight keeps the solvedPuzzles and currentPuzzleIndex of the render in
\* which handleSubmit was called (its closure).
\* JSON.stringify / JSON.parse of an array of booleans
Stringify(s) == [i \in 1..Len(s) |-> IF s[i] THEN "true" ELSE "false"]
Parse(t) == [i \in 1..Len(t) |-> t[i] = "true"]

\* solvedPuzzles[index] === true (undefined outside the array)
isPuzzleSolved(s, index) == index + 1 \in DOMAIN s /\ s[index + 1] = TRUE

isPuzzleUnlockedAlways(s, index) == TRUE
isPuzzleUnlocked(s, index) == index = 0 \/ isPuzzleSolved(s, index - 1)

\* solvedArray of saveSolvedPuzzle: the copy, padded with false, with
\* solvedArray[index] = true
SolvedArray(s, index) ==
    LET padded == IF Len(s) > index THEN s
                  ELSE s \o [i \in 1..(index + 1 - Len(s)) |-> FALSE]
    IN  [padded EXCEPT ![index + 1] = TRUE]

\* solved.findIndex(s => !s)
FirstUnsolved(s) ==
    IF \E i \in DOMAIN s : ~s[i]
    THEN (CHOOSE i \in DOMAIN s : ~s[i] /\ \A j \in 1..(i - 1) : s[j]) - 1
    ELSE -1

\* currentPuzzleIndex after the load effect found the saved array s
LoadedIndex(s) ==
    IF FirstUnsolved(s) # -1 THEN FirstUnsolved(s)
    ELSE IF Len(s) > 0 /\ \A i \in DOMAIN s : s[i] THEN Len(s) - 1
    ELSE 0

DashInit == SchedIdle /\ PromptIdle /\ ExtractIdle /\ RestIdle

\* the page is loaded again: initial state, then the load effect
DashReload ==
    /\ pending' = <<>>
    /\ IF storage.has
       THEN /\ solvedPuzzles' = Parse(storage.v)
            /\ currentPuzzleIndex' = LoadedIndex(Parse(storage.v))
       ELSE /\ solvedPuzzles' = <<>>
            /\ currentPuzzleIndex' = 0
    /\ UNCHANGED <<storage, core, pgen, extr, rend, vers, txn>>

\* handleSubmit up to the fetch: the form is shown for a current puzzle
\* that exists and is not solved
HandleSubmit ==
    /\ currentPuzzleIndex \in Positions
    /\ ~isPuzzleSolved(solvedPuzzles, currentPuzzleIndex)
    /\ Len(pending) < MaxPending
    /\ pending' = Append(pending, [solved |-> solvedPuzzles,
                                   index |-> currentPuzzleIndex])
    /\ UNCHANGED <<solvedPuzzles, currentPuzzleIndex, storage,
                   core, pgen, extr, rend, vers, txn>>

\* the sequence without its k-th element
Without(seq, k) ==
    [i \in 1..(Len(seq) - 1) |-> IF i < k THEN seq[i] ELSE seq[i + 1]]

\* handleSubmit after the response to the k-th request in flight:
\* saveSolvedPuzzle and the move to the next puzzle when the answer was
\* correct
VerifyResponse(k, correct) ==
    /\ k \in DOMAIN pending
    /\ pending' = Without(pending, k)
    /\ IF correct
       THEN /\ solvedPuzzles' = SolvedArray(pending[k].solved, pending[k].index)
            /\ storage' = [has |-> TRUE,
                           v |-> Stringify(SolvedArray(pending[k].solved,
                                                       pending[k].index))]
            /\ currentPuzzleIndex' = IF pending[k].index < NumPuzzles - 1
                                     THEN pending[k].index + 1
                                     ELSE currentPuzzleIndex
       ELSE UNCHANGED <<solvedPuzzles, storage, currentPuzzleIndex>>
    /\ UNCHANGED <<core, pgen, extr, rend, vers, txn>>

\* goToPuzzle(index)
GoToPuzzle(index) ==
    /\ currentPuzzleIndex' = IF isPuzzleUnlocked(solvedPuzzles, index)
                             THEN index ELSE currentPuzzleIndex
    /\ UNCHANGED <<solvedPuzzles, storage, pending,
                   core, pgen, extr, rend, vers, txn>>

DashNext ==
    \/ DashReload
    \/ HandleSubmit
    \/ \E k \in 1..MaxPending, correct \in BOOLEAN : VerifyResponse(k, correct)
    \/ \E index \in Positions : GoToPuzzle(index)

DashSpec == DashInit /\ [][DashNext]_vars

\* C26: a puzzle after the first is marked solved only if the one before
\* it is, and the current puzzle is the first one or one whose predecessor
\* is solved.
C26_SequentialUnlocking ==
    /\ \A i \in Positions :
          (i > 0 /\ isPuzzleSolved(solvedPuzzles, i))
              => isPuzzleSolved(solvedPuzzles, i - 1)
    /\ \/ currentPuzzleIndex = 0
       \/ isPuzzleSolved(solvedPuzzles, currentPuzzleIndex - 1)

C26_Witness ==
    /\ solvedPuzzles = <<TRUE, TRUE, TRUE>>
    /\ storage = [has |-> TRUE, v |-> <<"true", "true", "true">>]
    /\ currentPuzzleIndex = 1
    /\ pending = <<[solved |-> <<TRUE>>, index |-> 1]>>

C40_NoTriggerReplacesBatch ==
    [][\A d \in Days : RowsOf(d) # {} => RowsOf(d)' = RowsOf(d)]_vars

\* the stages of generatePuzzlesForToday after its first existence query
CycleStages == {"gen2", "prompts", "fetch", "render", "save"}

\* C33: a production cycle that run() has begun is not cut off: no step
\* ends the loop while it is inside generatePuzzlesForToday
C33_CycleRunsToCompletion ==
    [][\A l \in Loops : pc[l] \in CycleStages => pc'[l] # "killed"]_vars

\* C34: no Stop closes the closed stop channel, and once Start has
\* returned with the running flag set some run() loop is alive
C34_RestartWorks ==
    /\ ~panicked
    /\ (running /\ pc[Ctl] \in {"done", "idle"})
          => \E l \in Loops : pc[l] \notin {"none", "exited"}

\* C36: the step of the image loop that ends with an error (a render or
\* an image write failed at some position) leaves the image store as it
\* was before the loop
C36_FailedLoopKeepsImages ==
    [][\A p \in Procs :
          (/\ pc[p] = "render"
           /\ pc'[p] \notin {"render", "save"})
          => images' = images]_vars

\* C35: the image held for the (date, position) of a persisted record was
\* rendered from the prompts whose answer and hint the record carries
C35_RecordsMatchImages ==
    \A r \in table : images[<<r.date, r.index>>] = r.src

\* C31: every call that missed the cache performs the external request,
\* whatever other calls are doing; a call whose request returned 5 prompts
\* returns its own reply and the cache then holds that reply, replacing
\* what an overlapping call had written
C31_ConcurrentMissesLastWriteWins ==
    [][\A p \in Procs :
          (pc[p] = "fetch" /\ pc'[p] # "fetch")
          => (/\ "prompt" \in acts'[p]
              /\ pc'[p] = "render"
                    => (/\ prompts'[p] = p
                        /\ promptCache'[date[p]] = p))]_vars

\* two calls for one date both missed, both requested and both hold their
\* own reply; the cache holds the reply of the one that wrote last
C31_Witness ==
    \E p, q \in Procs :
       /\ p # q
       /\ pc[p] = "render" /\ pc[q] = "render"
       /\ date[p] = date[q]
       /\ "prompt" \in acts[p] /\ "prompt" \in acts[q]
       /\ prompts[p] = p /\ prompts[q] = q
       /\ promptCache[date[p]] = q

\* C37: whatever the reply text, GetPromptsFromClaude ends with a
\* returned error and not with a run-time panic
C37_NeverCrashes ==
    textOut.end # "panic: slice bounds out of range"

\* ================================================ prompts, further claims
\* C38: every entry of the prompt cache holds exactly 5 prompts; a call
\* that returns an error leaves the cache as it was; and the call that
\* follows a failed call for a date requests the prompts of that date anew
C38_CacheHoldsFiveErrorsUncached ==
    [][/\ \A d \in DateInputs :
             pgCache'[d].exists => Len(pgCache'[d].v) = NumPuzzles
       /\ (gpc = "request" /\ gout'.err # "")
             => (/\ pgCache' = pgCache
                 /\ gout'.req
                 /\ gout'.err \in {"reply", "expected 5 prompts"})
       /\ \A d \in DateInputs :
             (/\ gpc = "idle"
              /\ gdate' = d
              /\ gpc' # "idle"
              /\ gprev[d].err \in {"reply", "expected 5 prompts"})
             => gpc' = "request"]_vars

\* the cache holds the 5 prompts of one date; the call for another date
\* failed on the count and the next call for it is requesting again
C38_Witness ==
    \E d, e \in DateInputs :
       /\ pgCache[d].exists
       /\ Len(pgCache[d].v) = NumPuzzles
       /\ ~pgCache[e].exists
       /\ gprev[e].err = "expected 5 prompts"
       /\ gdate = e
       /\ gpc = "request"

\* the 5 records of date d paired by position with prompts ps, the answer
\* of a record being the prompt's answer as returned or in normal form
PairedRecords(d, ps, normal) ==
    [i \in 1..NumPuzzles |->
        [id |-> <<d, i - 1>>, date |-> d, index |-> i - 1,
         img |-> <<d, i - 1>>,
         answer |-> IF normal THEN NormalizeAnswer(ps[i].answer)
                    ELSE ps[i].answer,
         hint |-> ps[i].hint]]

====
